---------------------------- MODULE Spec2Model ----------------------------
(***************************************************************************)
(* The double-entry ledger of src/budgets/abstract_models.py (Budget,      *)
(* TransactionManager, Transaction, BudgetTransaction) together with the   *)
(* dashboard status forms of src/accounts/dashboard and the reversal       *)
(* endpoint of src/accounts/api/views.py; account creation, deletion of a  *)
(* user and the read-only methods of Budget are modelled too.              *)
(*                                                                         *)
(* Money is counted in minor units (cents): D('100.00') is 10000.          *)
(* A nullable column holds None (the empty tuple) or <<value>>.            *)
(* Rows of a table are records; a database transaction keeps the rows it   *)
(* inserted in `uncommitted` until COMMIT, and drops them on ROLLBACK.     *)
(***************************************************************************)
EXTENDS Integers, Sequences, FiniteSets, TLC

(* ------------------------------ bounds -------------------------------- *)

\* Number of transaction ids the database sequence hands out.
MaxTxns == 3

\* Last day the calendar reaches (days are 0..MaxDay).
MaxDay == 1

(* --------------------------- value domains ---------------------------- *)

None == <<>>

Some(x) == <<x>>

\* Primary keys of the Budget rows the database may hold.
Accounts == {"bank", "a", "b"}

\* The accounts the dashboard operator closes, freezes and thaws.
GiftCards == {"a", "b"}

\* Concurrent callers (request handlers) of TransactionManager.create.
Procs == {"p1", "p2"}

\* Rows of auth.User (primary keys).
Users == {"u1"}

\* User.username
auth_username == [u \in Users |-> "alice"]

\* Amounts a caller may pass, in cents: -60.00, 0.00 and 60.00.
AmountSet == {0 - 6000, 0, 6000}

\* Amounts is_debit_permitted is asked about, in cents: from -1.00 to
\* 1000000.00, with 500.00 and 560.00 and the amounts 1.00 above them.
QueryAmounts == {0 - 100, 0, 100, 6000, 6100, 50000, 50100, 56000, 56100, 100000, 100000000}

\* Credit limits an account is created with: unlimited, the default 0.00, 500.00.
LimitSet == {None, Some(0), Some(50000)}

OPEN == "Open"

CLOSED == "Closed"

FROZEN == "Frozen"

\* The status read for a primary key that has no row yet.
NoRow == "no row"

\* Outcomes of a call of create().
OK == "ok"

InvalidAmount == "InvalidAmount"

\* InactiveBudget("Source budget is inactive")
InactiveSource == "InactiveBudget: Source budget is inactive"

\* InactiveBudget("Destination budget is inactive")
InactiveDestination == "InactiveBudget: Destination budget is inactive"

\* ClosedBudget("Source budget has been closed")
ClosedSource == "ClosedBudget: Source budget has been closed"

\* ClosedBudget("Destination budget has been closed")
ClosedDestination == "ClosedBudget: Destination budget has been closed"

InactiveBudget == {InactiveSource, InactiveDestination}

ClosedBudget == {ClosedSource, ClosedDestination}

InsufficientBudget == "InsufficientBudget"

\* django.db.IntegrityError of a violated unique_together
IntegrityError == "IntegrityError"

\* Any other exception raised inside the `with` block
RuntimeError == "RuntimeError"

\* RuntimeError("Transaction cannot be deleted")
DeletionForbidden == "RuntimeError: Transaction cannot be deleted"

\* No call of create() has returned yet.
NoResult == "none"

\* What verify_transaction raises.
VerifyErrors == {InvalidAmount, InsufficientBudget} \cup InactiveBudget \cup ClosedBudget

Errors == VerifyErrors \cup {IntegrityError, RuntimeError}

NoArgs == [source |-> "none", destination |-> "none", amount |-> 0, parent |-> None]

\* No query has been made yet.
NoQuestion == [op |-> "none", account |-> "none", other |-> "none", amount |-> 0,
               answer |-> FALSE]

\* No checkout is in progress.
NoCheckout == [order_total |-> 0, account |-> None,
               allocations |-> [a \in Accounts |-> 0], message |-> ""]

(* ------------------------------- state -------------------------------- *)

VARIABLES
    today,          \* datetime.date.today()
    accounts,       \* primary keys of the rows of Budget
    users,          \* primary keys of the rows of auth.User
    primary_user,   \* Budget.primary_user
    code,           \* Budget.code (None: NULL)
    status,         \* Budget.status
    credit_limit,   \* Budget.credit_limit (None: unlimited)
    start_date,     \* Budget.start_date
    end_date,       \* Budget.end_date
    transactions,   \* committed rows of Transaction
    entries,        \* committed rows of BudgetTransaction
    uncommitted,    \* rows each caller inserted in its open database transaction
    next_id,        \* the primary-key sequence of Transaction
    pc,             \* position of each caller inside create()
    args,           \* arguments of the call of create() each caller is inside
    txn,            \* id of the header each caller inserted
    result,         \* outcome of each caller's last call of create()
    posted,         \* history: net amount the calls that returned ok moved to each account
    asked,          \* the last read-only query and the answer it returned
    given,          \* history: the code the last save() of each account was handed
    checkout        \* the checkout session: order total, chosen account, allocations

vars == <<today, accounts, users, primary_user, status, credit_limit, start_date,
          end_date, transactions, entries, uncommitted, next_id, pc, args, txn,
          result, posted, asked, code, given, checkout>>

budgetFields == <<credit_limit, start_date, end_date, primary_user, code>>

\* The tables and the query log a call of create() never touches.
untouched == <<accounts, users, asked, given, checkout>>

ledger == <<transactions, entries>>

(* --------------------------- Budget methods --------------------------- *)

RECURSIVE SumAmounts(_)
\* Sum('amount') over a non-empty set of rows.
SumAmounts(rows) ==
    IF rows = {} THEN 0
    ELSE LET r == CHOOSE x \in rows : TRUE
         IN r.amount + SumAmounts(rows \ {r})

\* Mutant of TransactionsOf: a dirty read, which also sees the entries other
\* connections have inserted and not committed.
TransactionsOfDirty(a) ==
    {e \in entries \cup UNION {uncommitted[p].entries : p \in DOMAIN uncommitted} : e.budget = a}

\* self.transactions: the committed entries that reference the budget.
TransactionsOf(a) == {e \in entries : e.budget = a}

\* self.transactions.aggregate(sum=Sum('amount')): NULL over no rows.
Aggregate(a) ==
    IF TransactionsOf(a) = {} THEN None ELSE Some(SumAmounts(TransactionsOf(a)))

balance(a) ==
    LET sum == Aggregate(a) IN IF sum = None THEN 0 ELSE sum[1]

num_transactions(a) == Cardinality(TransactionsOf(a))

\* Mutant of is_active: the end date is taken as the last active day.
is_activeEndInclusive(a) ==
    IF start_date[a] = None /\ end_date[a] = None THEN TRUE
    ELSE IF start_date[a] # None /\ end_date[a] = None THEN today >= start_date[a][1]
    ELSE IF start_date[a] = None /\ end_date[a] # None THEN today <= end_date[a][1]
    ELSE start_date[a][1] <= today /\ today <= end_date[a][1]

is_active(a) ==
    IF start_date[a] = None /\ end_date[a] = None THEN TRUE
    ELSE IF start_date[a] # None /\ end_date[a] = None THEN today >= start_date[a][1]
    ELSE IF start_date[a] = None /\ end_date[a] # None THEN today < end_date[a][1]
    ELSE start_date[a][1] <= today /\ today < end_date[a][1]

\* Mutant of is_debit_permitted: the amount must be strictly below what is
\* available.
is_debit_permittedStrict(a, amount) ==
    IF credit_limit[a] = None THEN TRUE
    ELSE amount < balance(a) + credit_limit[a][1]

\* Mutant of is_debit_permitted: the amount is compared with the credit limit
\* alone, the balance is forgotten.
is_debit_permittedIgnoresBalance(a, amount) ==
    IF credit_limit[a] = None THEN TRUE
    ELSE amount <= credit_limit[a][1]

is_debit_permitted(a, amount) ==
    IF credit_limit[a] = None THEN TRUE
    ELSE amount <= balance(a) + credit_limit[a][1]

is_open(a) == status[a] = OPEN

\* Budget.expired: the rows ExpiredBudgetManager.get_query_set returns.
expired == {a \in accounts : end_date[a] # None /\ end_date[a][1] <= today}

is_closed(a) == status[a] = CLOSED

is_frozen(a) == status[a] = FROZEN

(* ------------------------- TransactionManager ------------------------- *)

\* Mutant of verify_transaction: only a negative amount is refused (amount < 0).
verify_transactionAllowsZero(source, destination, amount) ==
    IF amount < 0 THEN InvalidAmount
    ELSE IF ~is_active(source) THEN InactiveSource
    ELSE IF ~is_active(destination) THEN InactiveDestination
    ELSE IF ~is_open(source) THEN ClosedSource
    ELSE IF ~is_open(destination) THEN ClosedDestination
    ELSE IF ~is_debit_permitted(source, amount) THEN InsufficientBudget
    ELSE OK

\* Mutant of verify_transaction: the status of the two budgets is checked
\* before their dates.
verify_transactionStatusFirst(source, destination, amount) ==
    IF amount <= 0 THEN InvalidAmount
    ELSE IF ~is_open(source) THEN ClosedSource
    ELSE IF ~is_open(destination) THEN ClosedDestination
    ELSE IF ~is_active(source) THEN InactiveSource
    ELSE IF ~is_active(destination) THEN InactiveDestination
    ELSE IF ~is_debit_permitted(source, amount) THEN InsufficientBudget
    ELSE OK

\* Mutant of verify_transaction: the status check of the source tests the
\* destination a second time.
verify_transactionChecksDestinationTwice(source, destination, amount) ==
    IF amount <= 0 THEN InvalidAmount
    ELSE IF ~is_active(source) THEN InactiveSource
    ELSE IF ~is_active(destination) THEN InactiveDestination
    ELSE IF ~is_open(destination) THEN ClosedSource
    ELSE IF ~is_open(destination) THEN ClosedDestination
    ELSE IF ~is_debit_permitted(source, amount) THEN InsufficientBudget
    ELSE OK

\* The exception verify_transaction raises, or OK when it returns.
verify_transaction(source, destination, amount) ==
    IF amount <= 0 THEN InvalidAmount
    ELSE IF ~is_active(source) THEN InactiveSource
    ELSE IF ~is_active(destination) THEN InactiveDestination
    ELSE IF ~is_open(source) THEN ClosedSource
    ELSE IF ~is_open(destination) THEN ClosedDestination
    ELSE IF ~is_debit_permitted(source, amount) THEN InsufficientBudget
    ELSE OK

\* A row of Transaction as Transaction.save stores it: the username of the
\* authorising user, when one is set, is copied into the row.
Header(id, parent, user) ==
    [id |-> id, parent |-> parent, user |-> user,
     username |-> IF user # None THEN auth_username[user[1]] ELSE ""]

Entry(id, budget, amount) == [transaction |-> id, budget |-> budget, amount |-> amount]

NoRows == [headers |-> {}, entries |-> {}]

\* Mutant of Insert: autocommit, every INSERT is committed at once.
InsertAutocommit(p, hdrs, ents) ==
    /\ transactions' = transactions \cup hdrs
    /\ entries' = entries \cup ents
    /\ UNCHANGED uncommitted

\* An INSERT inside `with transaction.commit_on_success()`: the rows stay
\* with the caller until COMMIT.
Insert(p, hdrs, ents) ==
    /\ uncommitted' = [uncommitted EXCEPT ![p] =
                          [headers |-> @.headers \cup hdrs,
                           entries |-> @.entries \cup ents]]
    /\ UNCHANGED ledger

\* Mutant of ViolatesUnique: the constraint also spans the amount, so only a
\* row equal in all three columns collides.
ViolatesUniqueWithAmount(p, e) ==
    \E r \in entries \cup uncommitted[p].entries :
        r.transaction = e.transaction /\ r.budget = e.budget /\ r.amount = e.amount

\* unique_together = ('transaction', 'budget'), as the inserting caller sees it.
ViolatesUnique(p, e) ==
    \E r \in entries \cup uncommitted[p].entries :
        r.transaction = e.transaction /\ r.budget = e.budget

\* The call of create() ends: its outcome goes to the caller.
Return(p, outcome) ==
    /\ pc' = [pc EXCEPT ![p] = "idle"]
    /\ args' = [args EXCEPT ![p] = NoArgs]
    /\ txn' = [txn EXCEPT ![p] = 0]
    /\ result' = [result EXCEPT ![p] = outcome]

\* Mutant of Rollback: the rows written before the exception are committed.
RollbackKeepsRows(p, error) ==
    /\ transactions' = transactions \cup uncommitted[p].headers
    /\ entries' = entries \cup uncommitted[p].entries
    /\ uncommitted' = [uncommitted EXCEPT ![p] = NoRows]
    /\ Return(p, error)
    /\ UNCHANGED <<posted, next_id>>

\* Leaving the `with` block on an exception: ROLLBACK.
Rollback(p, error) ==
    /\ uncommitted' = [uncommitted EXCEPT ![p] = NoRows]
    /\ Return(p, error)
    /\ UNCHANGED <<ledger, posted, next_id>>

\* self.get_query_set().create(user=user, description=description): the
\* header INSERT that opens the database transaction of create().
InsertHeader(p, source, destination, amount, parent, user) ==
    /\ next_id <= MaxTxns
    /\ Insert(p, {Header(next_id, parent, user)}, {})
    /\ args' = [args EXCEPT ![p] = [source |-> source, destination |-> destination,
                                    amount |-> amount, parent |-> parent]]
    /\ txn' = [txn EXCEPT ![p] = next_id]
    /\ next_id' = next_id + 1
    /\ pc' = [pc EXCEPT ![p] = "header"]
    /\ result' = [result EXCEPT ![p] = NoResult]
    /\ UNCHANGED posted

\* create(): verify_transaction, then the header INSERT that opens the
\* database transaction.
Create(p, source, destination, amount, parent, user) ==
    /\ pc[p] = "idle"
    /\ LET v == verify_transaction(source, destination, amount) IN
       IF v # OK
       THEN /\ Return(p, v)
            /\ UNCHANGED <<ledger, uncommitted, next_id, posted>>
       ELSE InsertHeader(p, source, destination, amount, parent, user)
    /\ UNCHANGED <<today, status, budgetFields, untouched>>

\* Mutant of WriteDebit: the debit entry is written with amount, not -amount.
WriteDebitUnsigned(p) ==
    /\ pc[p] = "header"
    /\ Insert(p, {}, {Entry(txn[p], args[p].source, args[p].amount)})
    /\ pc' = [pc EXCEPT ![p] = "debit"]
    /\ UNCHANGED <<today, status, budgetFields, untouched, next_id, args, txn, result, posted>>

\* txn.budget_transactions.create(budget=source, amount=-amount)
WriteDebit(p) ==
    /\ pc[p] = "header"
    /\ Insert(p, {}, {Entry(txn[p], args[p].source, 0 - args[p].amount)})
    /\ pc' = [pc EXCEPT ![p] = "debit"]
    /\ UNCHANGED <<today, status, budgetFields, untouched, next_id, args, txn, result, posted>>

\* txn.budget_transactions.create(budget=destination, amount=amount)
WriteCredit(p) ==
    /\ pc[p] = "debit"
    /\ LET e == Entry(txn[p], args[p].destination, args[p].amount) IN
       IF ViolatesUnique(p, e)
       THEN Rollback(p, IntegrityError)
       ELSE /\ Insert(p, {}, {e})
            /\ pc' = [pc EXCEPT ![p] = "credit"]
            /\ UNCHANGED <<next_id, args, txn, result, posted>>
    /\ UNCHANGED <<today, status, budgetFields, untouched>>

\* Mutant of Commit: an account that the transfer empties is closed with it.
CommitClosesEmptied(p) ==
    /\ pc[p] = "credit"
    /\ transactions' = transactions \cup uncommitted[p].headers
    /\ entries' = entries \cup uncommitted[p].entries
    /\ uncommitted' = [uncommitted EXCEPT ![p] = NoRows]
    /\ posted' = [posted EXCEPT ![args[p].source] = @ - args[p].amount,
                                ![args[p].destination] = @ + args[p].amount]
    /\ Return(p, OK)
    /\ status' = [status EXCEPT ![args[p].source] =
                     IF balance(args[p].source) = args[p].amount THEN CLOSED ELSE @]
    /\ UNCHANGED <<today, budgetFields, untouched, next_id>>

\* return self._wrap(txn) and leaving the `with` block normally: COMMIT.
Commit(p) ==
    /\ pc[p] = "credit"
    /\ transactions' = transactions \cup uncommitted[p].headers
    /\ entries' = entries \cup uncommitted[p].entries
    /\ uncommitted' = [uncommitted EXCEPT ![p] = NoRows]
    /\ posted' = [posted EXCEPT ![args[p].source] = @ - args[p].amount,
                                ![args[p].destination] = @ + args[p].amount]
    /\ Return(p, OK)
    /\ UNCHANGED <<today, status, budgetFields, untouched, next_id>>

\* An exception inside the `with` block (a mocked _wrap, a lost connection).
Abort(p) ==
    /\ pc[p] \in {"header", "debit", "credit"}
    /\ Rollback(p, RuntimeError)
    /\ UNCHANGED <<today, status, budgetFields, untouched>>

(* ------------------------------ ledger rows --------------------------- *)

\* Transaction.authorisor_username
authorisor_username(t) ==
    IF t.user # None THEN auth_username[t.user[1]] ELSE t.username

\* Mutant of Transaction_delete: delete is not overridden, models.Model.delete
\* removes the row and the entries that reference it.
Transaction_deleteCascades(p, t) ==
    /\ pc[p] = "idle"
    /\ t \in transactions
    /\ transactions' = transactions \ {t}
    /\ entries' = {e \in entries : e.transaction # t.id}
    /\ Return(p, OK)
    /\ UNCHANGED <<today, status, budgetFields, untouched, uncommitted, next_id, posted>>

\* Transaction.delete: raises.
Transaction_delete(p, t) ==
    /\ pc[p] = "idle"
    /\ t \in transactions
    /\ Return(p, DeletionForbidden)
    /\ UNCHANGED <<today, status, budgetFields, untouched, ledger, uncommitted, next_id,
                   posted>>

\* BudgetTransaction.delete: raises.
BudgetTransaction_delete(p, e) ==
    /\ pc[p] = "idle"
    /\ e \in entries
    /\ Return(p, DeletionForbidden)
    /\ UNCHANGED <<today, status, budgetFields, untouched, ledger, uncommitted, next_id,
                   posted>>

\* User.delete(): Transaction.user is on_delete=SET_NULL; Budget.primary_user
\* and BudgetTransaction.budget name no on_delete, so the budgets of the user
\* and the entries of those budgets are collected and deleted with the user.
DeleteUser(u) ==
    /\ u \in users
    /\ users' = users \ {u}
    /\ LET collected == {a \in accounts : primary_user[a] = Some(u)} IN
       /\ accounts' = accounts \ collected
       /\ entries' = {e \in entries : e.budget \notin collected}
    /\ transactions' = {IF t.user = Some(u) THEN [t EXCEPT !.user = None] ELSE t :
                            t \in transactions}
    /\ UNCHANGED <<today, status, budgetFields, asked, checkout, given, uncommitted, next_id, pc,
                   args, txn, result, posted>>

(* ------------------------------ callers ------------------------------- *)

\* facade.transfer(source, destination, amount)
Transfer(p) ==
    \E s \in accounts, d \in accounts, amt \in AmountSet : Create(p, s, d, amt, None, None)

\* The source, destination and amount of a committed transfer.
TransferSource(t) ==
    CHOOSE a \in Accounts :
        \E e \in entries : e.transaction = t.id /\ e.budget = a /\ e.amount < 0

TransferDestination(t) ==
    CHOOSE a \in Accounts :
        \E e \in entries : e.transaction = t.id /\ e.budget = a /\ e.amount > 0

TransferAmount(t) ==
    (CHOOSE e \in entries : e.transaction = t.id /\ e.amount > 0).amount

\* Mutant of Reverse: source and destination are not swapped, the transfer is
\* made a second time.
ReverseSameDirection(p) ==
    \E t \in transactions :
        /\ \E d \in entries, c \in entries :
              d.transaction = t.id /\ c.transaction = t.id /\ d.amount < 0 /\ c.amount > 0
        /\ Create(p, TransferSource(t), TransferDestination(t), TransferAmount(t),
                  Some(t.id), None)

\* facade.reverse(to_reverse): the same amount back from the destination to
\* the source, with a back-reference to the transfer reversed.
Reverse(p) ==
    \E t \in transactions :
        /\ \E d \in entries, c \in entries :
              d.transaction = t.id /\ c.transaction = t.id /\ d.amount < 0 /\ c.amount > 0
        /\ Create(p, TransferDestination(t), TransferSource(t), TransferAmount(t),
                  Some(t.id), None)

\* The funding account facade.source() designates.
facade_source == "bank"

\* AccountTopUpView: TopUpAccountForm (amount >= 0.00, account neither closed
\* nor frozen), then facade.transfer(facade.source(), account, amount,
\* user=request.user).
TopUp(p) ==
    \E a \in accounts, amt \in AmountSet, u \in users :
        /\ amt >= 0
        /\ ~is_closed(a)
        /\ ~is_frozen(a)
        /\ Create(p, facade_source, a, amt, None, Some(u))

(* --------------------------- account creation ------------------------- *)

\* Mutant of NewAccount: credit_limit has no default and is stored as NULL.
NewAccountUnlimited(a, from, until) ==
    /\ a \notin accounts
    /\ accounts' = accounts \cup {a}
    /\ status' = [status EXCEPT ![a] = OPEN]
    /\ credit_limit' = [credit_limit EXCEPT ![a] = None]
    /\ start_date' = [start_date EXCEPT ![a] = from]
    /\ end_date' = [end_date EXCEPT ![a] = until]
    /\ primary_user' = [primary_user EXCEPT ![a] = None]
    /\ code' = [code EXCEPT ![a] = None]
    /\ UNCHANGED <<today, users, asked, checkout, given, ledger, uncommitted, next_id, pc, args,
                   txn, result, posted>>

\* Account(...).save() / Account.objects.create(start_date, end_date): a new
\* row with the defaults of the fields that are not given.
NewAccount(a, from, until) ==
    /\ a \notin accounts
    /\ accounts' = accounts \cup {a}
    /\ status' = [status EXCEPT ![a] = OPEN]
    /\ credit_limit' = [credit_limit EXCEPT ![a] = Some(0)]
    /\ start_date' = [start_date EXCEPT ![a] = from]
    /\ end_date' = [end_date EXCEPT ![a] = until]
    /\ primary_user' = [primary_user EXCEPT ![a] = None]
    /\ code' = [code EXCEPT ![a] = None]
    /\ UNCHANGED <<today, users, asked, checkout, given, ledger, uncommitted, next_id, pc, args,
                   txn, result, posted>>

(* ----------------------------- account code --------------------------- *)

\* The characters codes are written in: letters of both cases and a digit.
Chars == {"a", "b", "A", "1"}

\* Longest code that is written.
MaxCodeLen == 2

\* The codes a caller hands to save(), as sequences of characters.
Codes == UNION {[1..n -> Chars] : n \in 1..MaxCodeLen}

\* str.upper of one character.
upperChar(c) ==
    CASE c = "a" -> "A"
      [] c = "b" -> "B"
      [] OTHER -> c

\* Mutant of upper: only the first character is raised, as str.capitalize
\* does for a code that starts with a letter.
upperFirstOnly(c) == [i \in DOMAIN c |-> IF i = 1 THEN upperChar(c[i]) ELSE c[i]]

\* str.upper
upper(c) == [i \in DOMAIN c |-> upperChar(c[i])]

\* account.code = c; account.save(): the code is raised to uppercase and
\* written; the write is refused when another row holds the same code
\* (unique=True), and then nothing changes.
Account_save(a, c) ==
    /\ a \in accounts
    /\ \A b \in accounts \ {a} : code[b] # Some(upper(c))
    /\ code' = [code EXCEPT ![a] = Some(upper(c))]
    /\ given' = [given EXCEPT ![a] = Some(c)]
    /\ UNCHANGED <<today, accounts, users, primary_user, status, credit_limit,
                   start_date, end_date, asked, checkout, ledger, uncommitted, next_id, pc, args,
                   txn, result, posted>>

\* Account.objects.create(code=c): a new row with the defaults of the other
\* fields, written by the same save().
Account_create(a, c) ==
    /\ a \notin accounts
    /\ \A b \in accounts : code[b] # Some(upper(c))
    /\ accounts' = accounts \cup {a}
    /\ status' = [status EXCEPT ![a] = OPEN]
    /\ credit_limit' = [credit_limit EXCEPT ![a] = Some(0)]
    /\ start_date' = [start_date EXCEPT ![a] = None]
    /\ end_date' = [end_date EXCEPT ![a] = None]
    /\ primary_user' = [primary_user EXCEPT ![a] = None]
    /\ code' = [code EXCEPT ![a] = Some(upper(c))]
    /\ given' = [given EXCEPT ![a] = Some(c)]
    /\ UNCHANGED <<today, users, asked, checkout, ledger, uncommitted, next_id, pc, args, txn,
                   result, posted>>

(* -------------------------- creation workflows ------------------------ *)

\* codes.generate(): an uppercase code that no stored account holds.
codes_generate ==
    CHOOSE c \in Codes : c = upper(c) /\ \A b \in accounts : code[b] # Some(c)

\* The funding account core.unpaid_source_account() designates; the model
\* keeps one funding account with unlimited credit.
unpaid_source_account == "bank"

\* The amounts the boundary of a creation request lets through:
\* AccountsView.clean_amount refuses amount < 0, NewAccountForm.initial_amount
\* has min_value 0.00.
clean_amount(amount) == amount >= 0

\* The dates a creation request carries: none, a range that holds today, and
\* a range that has not begun (start and end equal pass AccountsView.clean).
CreationDates == {<<None, None>>, <<Some(0), Some(MaxDay + 1)>>,
                  <<Some(MaxDay + 1), Some(MaxDay + 1)>>}

\* The first half of a creation request: the account row is saved with a
\* generated code and the defaults of the other fields, and the request
\* goes on to load it with amount from source.
SaveNewAccount(p, a, source, amount, from, until, position) ==
    /\ pc[p] = "idle"
    /\ a \notin accounts
    /\ clean_amount(amount)
    /\ accounts' = accounts \cup {a}
    /\ status' = [status EXCEPT ![a] = OPEN]
    /\ credit_limit' = [credit_limit EXCEPT ![a] = Some(0)]
    /\ start_date' = [start_date EXCEPT ![a] = from]
    /\ end_date' = [end_date EXCEPT ![a] = until]
    /\ primary_user' = [primary_user EXCEPT ![a] = None]
    /\ code' = [code EXCEPT ![a] = Some(upper(codes_generate))]
    /\ given' = [given EXCEPT ![a] = Some(codes_generate)]
    /\ pc' = [pc EXCEPT ![p] = position]
    /\ args' = [args EXCEPT ![p] = [source |-> source, destination |-> a,
                                    amount |-> amount, parent |-> None]]
    /\ result' = [result EXCEPT ![p] = NoResult]
    /\ UNCHANGED <<today, users, asked, checkout, ledger, uncommitted, next_id, txn, posted>>

\* account.delete(): the row goes, and with it the entries that reference it.
Account_delete(a) ==
    /\ accounts' = accounts \ {a}
    /\ status' = [status EXCEPT ![a] = NoRow]
    /\ credit_limit' = [credit_limit EXCEPT ![a] = None]
    /\ start_date' = [start_date EXCEPT ![a] = None]
    /\ end_date' = [end_date EXCEPT ![a] = None]
    /\ primary_user' = [primary_user EXCEPT ![a] = None]
    /\ code' = [code EXCEPT ![a] = None]
    /\ given' = [given EXCEPT ![a] = None]
    /\ entries' = {e \in entries : e.budget # a}
    /\ UNCHANGED transactions

\* AccountsView.create_account: Account.objects.create(start_date, end_date,
\* code=codes.generate()), with the bank account as the source of the load.
create_account(p) ==
    \E a \in GiftCards, amount \in AmountSet, dates \in CreationDates :
        /\ dates[1] # None
        /\ SaveNewAccount(p, a, "bank", amount, dates[1], dates[2], "load_account")

\* AccountsView.load_account: facade.transfer(bank, account, amount); on an
\* AccountException the account is deleted and the error goes to the caller.
load_account(p) ==
    /\ pc[p] = "load_account"
    /\ LET v == verify_transaction(args[p].source, args[p].destination, args[p].amount) IN
       IF v # OK
       THEN /\ Account_delete(args[p].destination)
            /\ Return(p, v)
            /\ UNCHANGED <<uncommitted, next_id, posted>>
       ELSE /\ InsertHeader(p, args[p].source, args[p].destination, args[p].amount,
                            None, None)
            /\ UNCHANGED <<accounts, status, budgetFields, given>>
    /\ UNCHANGED <<today, users, asked, checkout>>

\* CodeAccountCreateView.form_valid, first half: form.save(commit=False),
\* account.code = codes.generate(), account.save().
form_valid_save(p) ==
    \E a \in GiftCards, amount \in AmountSet, dates \in CreationDates :
        SaveNewAccount(p, a, unpaid_source_account, amount, dates[1], dates[2],
                       "form_valid")

\* CodeAccountCreateView.form_valid, second half: facade.transfer(
\* core.unpaid_source_account(), account, amount, user=request.user); an
\* exception of the transfer leaves the view uncaught.
form_valid_transfer(p) ==
    /\ pc[p] = "form_valid"
    /\ \E u \in users :
          LET v == verify_transaction(args[p].source, args[p].destination, args[p].amount) IN
          IF v # OK
          THEN /\ Return(p, v)
               /\ UNCHANGED <<ledger, uncommitted, next_id, posted>>
          ELSE InsertHeader(p, args[p].source, args[p].destination, args[p].amount,
                            None, Some(u))
    /\ UNCHANGED <<today, accounts, users, status, budgetFields, asked, checkout, given>>

(* ------------------------------- checkout ----------------------------- *)

\* min_value=D('0.01') of AllocationForm.amount, in cents.
min_value == 1

\* The order totals of the checkouts, in cents.
OrderTotals == {3, 5}

\* The amounts entered in the allocation form, in cents.
AllocationAmounts == 0..4

NoAccountFound == "No account found with this code"

NoLongerActive == "This account is no longer active"

NoLongerOpen == "This account is no longer open"

AccountEmpty == "This account is empty"

BelowMinimum == "Ensure this value is greater than or equal to 0.01"

MaximumAllocation == "The maximum allocation is"

Accepted == "accepted"

RECURSIVE lstrip(_)
\* str.lstrip: leading blanks removed.
lstrip(c) == IF c # <<>> /\ Head(c) = " " THEN lstrip(Tail(c)) ELSE c

RECURSIVE rstrip(_)
\* str.rstrip: trailing blanks removed.
rstrip(c) == IF c # <<>> /\ c[Len(c)] = " " THEN rstrip(SubSeq(c, 1, Len(c) - 1)) ELSE c

\* str.strip
strip(c) == rstrip(lstrip(c))

\* What customers type in the code field: a code, with or without blanks
\* around it.
EnteredCodes == Codes \cup {<<" ">> \o c \o <<" ">> : c \in Codes}

RECURSIVE SumOver(_, _)
\* Sum of f over the set S.
SumOver(f, S) ==
    IF S = {} THEN 0
    ELSE LET x == CHOOSE y \in S : TRUE IN f[x] + SumOver(f, S \ {x})

\* allocations.total
allocations_total == SumOver(checkout.allocations, Accounts)

\* Smaller of two amounts.
min(x, y) == IF x <= y THEN x ELSE y

\* Mutant of get_max_amount: the balance alone limits the allocation.
get_max_amountBalanceOnly(a) == balance(a)

\* AllocationForm.get_max_amount
get_max_amount(a) == min(balance(a), checkout.order_total - allocations_total)

\* AccountForm.clean_code: the outcome for the code that was entered.
clean_code(entered) ==
    LET found == {a \in accounts : code[a] = Some(strip(entered))} IN
    IF found = {} THEN NoAccountFound
    ELSE LET a == CHOOSE x \in found : TRUE IN
         IF ~is_active(a) THEN NoLongerActive
         ELSE IF ~is_open(a) THEN NoLongerOpen
         ELSE IF balance(a) = 0 THEN AccountEmpty
         ELSE Accepted

\* The account form is submitted: an accepted code selects its account for
\* the allocation form.
SubmitAccountForm(entered) ==
    /\ checkout' = [checkout EXCEPT
          !.message = clean_code(entered),
          !.account = IF clean_code(entered) = Accepted
                      THEN Some(CHOOSE a \in accounts : code[a] = Some(strip(entered)))
                      ELSE @]
    /\ UNCHANGED <<today, accounts, users, status, budgetFields, asked, given, ledger,
                   uncommitted, next_id, pc, args, txn, result, posted>>

\* AllocationForm: the amount field (min_value), then clean_amount.
clean_amount_allocation(a, amount) ==
    IF amount < min_value THEN BelowMinimum
    ELSE IF amount > get_max_amount(a) THEN MaximumAllocation
    ELSE Accepted

\* The allocation form is submitted for the selected account: an accepted
\* amount is added to the allocations of the checkout.
SubmitAllocationForm(amount) ==
    /\ checkout.account # None
    /\ LET a == checkout.account[1] IN
       checkout' = [checkout EXCEPT
          !.message = clean_amount_allocation(a, amount),
          !.allocations[a] = IF clean_amount_allocation(a, amount) = Accepted
                             THEN @ + amount ELSE @]
    /\ UNCHANGED <<today, accounts, users, status, budgetFields, asked, given, ledger,
                   uncommitted, next_id, pc, args, txn, result, posted>>

(* ------------------------------- queries ------------------------------ *)

\* A read-only call: its answer is recorded, nothing else changes.
Ask(op, a, other, amount, answer) ==
    /\ asked' = [op |-> op, account |-> a, other |-> other, amount |-> amount,
                 answer |-> answer]
    /\ UNCHANGED <<today, accounts, users, status, budgetFields, given, checkout, ledger,
                   uncommitted, next_id, pc, args, txn, result, posted>>

\* account.is_debit_permitted(amount)
AskDebitPermitted ==
    \E a \in accounts, amount \in QueryAmounts :
        Ask("is_debit_permitted", a, "none", amount, is_debit_permitted(a, amount))

\* account.is_active()
AskActive ==
    \E a \in accounts : Ask("is_active", a, "none", 0, is_active(a))

\* account in Budget.expired.all()
AskExpired ==
    \E a \in accounts : Ask("expired", a, "none", 0, a \in expired)

\* Transaction.objects.verify_transaction(source, destination, amount)
AskVerify ==
    \E source \in accounts, destination \in accounts, amount \in AmountSet :
        Ask("verify_transaction", source, destination, amount,
            verify_transaction(source, destination, amount))

(* ------------------------------ lifecycle ----------------------------- *)

SetStatus(a, new_status) ==
    /\ a \in accounts
    /\ status' = [status EXCEPT ![a] = new_status]
    /\ UNCHANGED <<today, budgetFields, untouched, ledger, uncommitted, next_id, pc,
                   args, txn, result, posted>>

\* Budget.close
close(a) == SetStatus(a, CLOSED)

\* Mutant of Freeze: the form refuses an account that is not empty, as a
\* check on closing would.
FreezeOnlyWhenEmpty(a) == balance(a) = 0 /\ SetStatus(a, FROZEN)

\* AccountFreezeView with FreezeAccountForm
Freeze(a) == SetStatus(a, FROZEN)

\* AccountThawView with ThawAccountForm
Thaw(a) == SetStatus(a, OPEN)

\* Midnight passes.
Tick ==
    /\ today < MaxDay
    /\ today' = today + 1
    /\ UNCHANGED <<status, budgetFields, untouched, ledger, uncommitted, next_id, pc,
                   args, txn, result, posted>>

(* ---------------------------- specification --------------------------- *)

\* Three open budgets and an empty ledger: "bank" has unlimited credit and no
\* dates, "a" the default credit limit 0.00 and ends on day 1, "b" a credit
\* limit of 60.00 and no dates.
Init ==
    /\ today = 0
    /\ accounts = Accounts
    /\ users = Users
    /\ primary_user = [a \in Accounts |-> None]
    /\ asked = NoQuestion
    /\ code = [a \in Accounts |-> None]
    /\ given = [a \in Accounts |-> None]
    /\ checkout = NoCheckout
    /\ status = [a \in Accounts |-> OPEN]
    /\ credit_limit = [a \in Accounts |->
                         IF a = "bank" THEN None ELSE IF a = "a" THEN Some(0) ELSE Some(6000)]
    /\ start_date = [a \in Accounts |-> None]
    /\ end_date = [a \in Accounts |-> IF a = "a" THEN Some(1) ELSE None]
    /\ transactions = {}
    /\ entries = {}
    /\ uncommitted = [p \in Procs |-> NoRows]
    /\ next_id = 1
    /\ pc = [p \in Procs |-> "idle"]
    /\ args = [p \in Procs |-> NoArgs]
    /\ txn = [p \in Procs |-> 0]
    /\ result = [p \in Procs |-> NoResult]
    /\ posted = [a \in Accounts |-> 0]

\* No caller is inside create().
Quiet == \A p \in Procs : pc[p] = "idle"

\* Concurrent callers of create().
Next ==
    \/ \E p \in Procs : Transfer(p)
    \/ \E p \in Procs : Reverse(p)
    \/ \E p \in Procs : WriteDebit(p)
    \/ \E p \in Procs : WriteCredit(p)
    \/ \E p \in Procs : Commit(p)
    \/ \E p \in Procs : Abort(p)

Spec == Init /\ [][Next]_vars

\* The one caller of the sequential system.
Caller == "p1"

\* One operation at a time, with the lifecycle operations.
NextSeq ==
    \/ Transfer(Caller)
    \/ WriteDebit(Caller)
    \/ WriteCredit(Caller)
    \/ Commit(Caller)
    \/ Abort(Caller)
    \/ \E a \in GiftCards : Quiet /\ close(a)
    \/ \E a \in GiftCards : Quiet /\ Freeze(a)
    \/ \E a \in GiftCards : Quiet /\ Thaw(a)
    \/ Quiet /\ Tick

SpecSeq == Init /\ [][NextSeq]_vars

\* The test of concurrent debits: account "a" holds 100.00 from transfer 1
\* out of "bank" and has credit limit 0.00.
InitRace ==
    /\ today = 0
    /\ accounts = Accounts
    /\ users = Users
    /\ primary_user = [a \in Accounts |-> None]
    /\ asked = NoQuestion
    /\ code = [a \in Accounts |-> None]
    /\ given = [a \in Accounts |-> None]
    /\ checkout = NoCheckout
    /\ status = [a \in Accounts |-> OPEN]
    /\ credit_limit = [a \in Accounts |->
                         IF a = "bank" THEN None ELSE IF a = "a" THEN Some(0) ELSE Some(6000)]
    /\ start_date = [a \in Accounts |-> None]
    /\ end_date = [a \in Accounts |-> IF a = "a" THEN Some(1) ELSE None]
    /\ transactions = {Header(1, None, None)}
    /\ entries = {Entry(1, "bank", 0 - 10000), Entry(1, "a", 10000)}
    /\ uncommitted = [p \in Procs |-> NoRows]
    /\ next_id = 2
    /\ pc = [p \in Procs |-> "idle"]
    /\ args = [p \in Procs |-> NoArgs]
    /\ txn = [p \in Procs |-> 0]
    /\ result = [p \in Procs |-> NoResult]
    /\ posted = [a \in Accounts |-> IF a = "bank" THEN 0 - 10000 ELSE IF a = "a" THEN 10000 ELSE 0]

\* One attempt of a caller to debit 60.00 from "a".
Debit60(p) ==
    /\ result[p] = NoResult
    /\ \E d \in accounts \ {"a"} : Create(p, "a", d, 6000, None, None)

\* Every caller launches one debit of 60.00 from "a"; nothing else runs.
NextRace ==
    \/ \E p \in Procs : Debit60(p)
    \/ \E p \in Procs : WriteDebit(p)
    \/ \E p \in Procs : WriteCredit(p)
    \/ \E p \in Procs : Commit(p)

SpecRace == InitRace /\ [][NextRace]_vars

\* The dashboard operator at work while the requests of one caller run: the
\* status forms are saved in requests of their own, at any point of a call of
\* create().
NextOperator ==
    \/ Transfer(Caller)
    \/ TopUp(Caller)
    \/ WriteDebit(Caller)
    \/ WriteCredit(Caller)
    \/ Commit(Caller)
    \/ \E a \in GiftCards : close(a)
    \/ \E a \in GiftCards : Freeze(a)
    \/ \E a \in GiftCards : Thaw(a)

SpecOperator == Init /\ [][NextOperator]_vars

\* One caller that transfers and reverses, one operation at a time, while
\* accounts are frozen and days pass between the calls.
NextReverse ==
    \/ Transfer(Caller)
    \/ Reverse(Caller)
    \/ WriteDebit(Caller)
    \/ WriteCredit(Caller)
    \/ Commit(Caller)
    \/ Abort(Caller)
    \/ \E a \in GiftCards : Quiet /\ Freeze(a)
    \/ Quiet /\ Tick

SpecReverse == Init /\ [][NextReverse]_vars

\* One caller that transfers, reverses and tries to delete the rows of the
\* ledger.
NextDelete ==
    \/ Transfer(Caller)
    \/ Reverse(Caller)
    \/ WriteDebit(Caller)
    \/ WriteCredit(Caller)
    \/ Commit(Caller)
    \/ Abort(Caller)
    \/ \E t \in transactions : Transaction_delete(Caller, t)
    \/ \E e \in entries : BudgetTransaction_delete(Caller, e)

SpecDelete == Init /\ [][NextDelete]_vars

\* Account "a" as it may have been created and used: any of the credit
\* limits, any dates around today, any status, with or without 60.00 received
\* from "bank" by transfer 1.
InitQuery ==
    /\ today \in 0..MaxDay
    /\ accounts = Accounts
    /\ users = Users
    /\ primary_user = [a \in Accounts |-> None]
    /\ asked = NoQuestion
    /\ code = [a \in Accounts |-> None]
    /\ given = [a \in Accounts |-> None]
    /\ checkout = NoCheckout
    /\ \E st \in {OPEN, FROZEN, CLOSED} :
          status = [a \in Accounts |-> IF a = "a" THEN st ELSE OPEN]
    /\ \E limit \in LimitSet :
          credit_limit = [a \in Accounts |->
                            IF a = "bank" THEN None ELSE IF a = "a" THEN limit ELSE Some(6000)]
    /\ \E from \in {None} \cup {Some(d) : d \in 0..(MaxDay + 1)} :
          start_date = [a \in Accounts |-> IF a = "a" THEN from ELSE None]
    /\ \E until \in {None} \cup {Some(d) : d \in 0..(MaxDay + 1)} :
          end_date = [a \in Accounts |-> IF a = "a" THEN until ELSE None]
    /\ \E funded \in BOOLEAN :
          /\ transactions = IF funded THEN {Header(1, None, None)} ELSE {}
          /\ entries = IF funded THEN {Entry(1, "bank", 0 - 6000), Entry(1, "a", 6000)} ELSE {}
          /\ next_id = IF funded THEN 2 ELSE 1
          /\ posted = [a \in Accounts |->
                          IF ~funded THEN 0
                          ELSE IF a = "bank" THEN 0 - 6000 ELSE IF a = "a" THEN 6000 ELSE 0]
    /\ uncommitted = [p \in Procs |-> NoRows]
    /\ pc = [p \in Procs |-> "idle"]
    /\ args = [p \in Procs |-> NoArgs]
    /\ txn = [p \in Procs |-> 0]
    /\ result = [p \in Procs |-> NoResult]

\* The read-only calls on the accounts.
NextQuery ==
    \/ AskDebitPermitted
    \/ AskActive
    \/ AskExpired
    \/ AskVerify

SpecQuery == InitQuery /\ [][NextQuery]_vars

\* Only "bank" exists, with unlimited credit; the other rows are still to be
\* created.
InitNew ==
    /\ today = 0
    /\ accounts = {"bank"}
    /\ users = Users
    /\ primary_user = [a \in Accounts |-> None]
    /\ asked = NoQuestion
    /\ code = [a \in Accounts |-> None]
    /\ given = [a \in Accounts |-> None]
    /\ checkout = NoCheckout
    /\ status = [a \in Accounts |-> IF a = "bank" THEN OPEN ELSE NoRow]
    /\ credit_limit = [a \in Accounts |-> None]
    /\ start_date = [a \in Accounts |-> None]
    /\ end_date = [a \in Accounts |-> None]
    /\ transactions = {}
    /\ entries = {}
    /\ uncommitted = [p \in Procs |-> NoRows]
    /\ next_id = 1
    /\ pc = [p \in Procs |-> "idle"]
    /\ args = [p \in Procs |-> NoArgs]
    /\ txn = [p \in Procs |-> 0]
    /\ result = [p \in Procs |-> NoResult]
    /\ posted = [a \in Accounts |-> 0]

\* Accounts are created, without dates or with a window around today, and
\* one caller transfers between the accounts that exist.
NextNew ==
    \/ \E a \in Accounts : Quiet /\ NewAccount(a, None, None)
    \/ \E a \in Accounts : Quiet /\ NewAccount(a, Some(0), Some(MaxDay + 1))
    \/ Transfer(Caller)
    \/ WriteDebit(Caller)
    \/ WriteCredit(Caller)
    \/ Commit(Caller)

SpecNew == InitNew /\ [][NextNew]_vars

\* As Init, with account "a" the budget of user "u1".
InitAudit ==
    /\ today = 0
    /\ accounts = Accounts
    /\ users = Users
    /\ primary_user = [a \in Accounts |-> IF a = "a" THEN Some("u1") ELSE None]
    /\ asked = NoQuestion
    /\ code = [a \in Accounts |-> None]
    /\ given = [a \in Accounts |-> None]
    /\ checkout = NoCheckout
    /\ status = [a \in Accounts |-> OPEN]
    /\ credit_limit = [a \in Accounts |->
                         IF a = "bank" THEN None ELSE IF a = "a" THEN Some(0) ELSE Some(6000)]
    /\ start_date = [a \in Accounts |-> None]
    /\ end_date = [a \in Accounts |-> IF a = "a" THEN Some(1) ELSE None]
    /\ transactions = {}
    /\ entries = {}
    /\ uncommitted = [p \in Procs |-> NoRows]
    /\ next_id = 1
    /\ pc = [p \in Procs |-> "idle"]
    /\ args = [p \in Procs |-> NoArgs]
    /\ txn = [p \in Procs |-> 0]
    /\ result = [p \in Procs |-> NoResult]
    /\ posted = [a \in Accounts |-> 0]

\* One operation at a time: transfers with and without an authorising user,
\* reversals, attempts to delete ledger rows, deletion of a user, and the
\* lifecycle operations.
NextAudit ==
    \/ Transfer(Caller)
    \/ TopUp(Caller)
    \/ Reverse(Caller)
    \/ WriteDebit(Caller)
    \/ WriteCredit(Caller)
    \/ Commit(Caller)
    \/ \E t \in transactions : Transaction_delete(Caller, t)
    \/ \E e \in entries : BudgetTransaction_delete(Caller, e)
    \/ \E u \in users : Quiet /\ DeleteUser(u)
    \/ \E a \in GiftCards : Quiet /\ close(a)
    \/ \E a \in GiftCards : Quiet /\ Freeze(a)
    \/ \E a \in GiftCards : Quiet /\ Thaw(a)

SpecAudit == InitAudit /\ [][NextAudit]_vars

\* Accounts are created with a code and their codes are rewritten.
NextCode ==
    \/ \E a \in GiftCards, c \in Codes : Account_create(a, c)
    \/ \E a \in GiftCards, c \in Codes : Account_save(a, c)

SpecCode == InitNew /\ [][NextCode]_vars

\* Accounts are created through the API and through the dashboard, one
\* request at a time, from a state where only "bank" exists.
NextCreation ==
    \/ create_account(Caller)
    \/ load_account(Caller)
    \/ form_valid_save(Caller)
    \/ form_valid_transfer(Caller)
    \/ WriteDebit(Caller)
    \/ WriteCredit(Caller)
    \/ Commit(Caller)

SpecCreation == InitNew /\ [][NextCreation]_vars

\* A checkout with an order total: "a" has code A1 and holds 0.02, "b" has
\* code A and holds nothing, 0.04, or owes 0.02 within its credit limit.
InitCheckout ==
    /\ today = 0
    /\ accounts = Accounts
    /\ users = Users
    /\ primary_user = [a \in Accounts |-> None]
    /\ asked = NoQuestion
    /\ code = [a \in Accounts |->
                  IF a = "a" THEN Some(<<"A", "1">>) ELSE IF a = "b" THEN Some(<<"A">>) ELSE None]
    /\ given = code
    /\ \E total \in OrderTotals : checkout = [NoCheckout EXCEPT !.order_total = total]
    /\ status = [a \in Accounts |-> OPEN]
    /\ credit_limit = [a \in Accounts |->
                         IF a = "bank" THEN None ELSE IF a = "a" THEN Some(0) ELSE Some(6000)]
    /\ start_date = [a \in Accounts |-> None]
    /\ end_date = [a \in Accounts |-> IF a = "a" THEN Some(1) ELSE None]
    /\ \E held \in {0 - 2, 0, 4} :
          /\ transactions = {Header(1, None, None)} \cup
                            (IF held = 0 THEN {} ELSE {Header(2, None, None)})
          /\ entries = {Entry(1, "bank", 0 - 2), Entry(1, "a", 2)} \cup
                       (IF held = 0 THEN {}
                        ELSE {Entry(2, "bank", 0 - held), Entry(2, "b", held)})
          /\ next_id = IF held = 0 THEN 2 ELSE 3
          /\ posted = [a \in Accounts |->
                          IF a = "a" THEN 2 ELSE IF a = "b" THEN held ELSE 0 - 2 - held]
    /\ uncommitted = [p \in Procs |-> NoRows]
    /\ pc = [p \in Procs |-> "idle"]
    /\ args = [p \in Procs |-> NoArgs]
    /\ txn = [p \in Procs |-> 0]
    /\ result = [p \in Procs |-> NoResult]

\* The two forms of the checkout are submitted while accounts are frozen,
\* thawed and closed and days pass.
NextCheckout ==
    \/ \E entered \in EnteredCodes : SubmitAccountForm(entered)
    \/ \E amount \in AllocationAmounts : SubmitAllocationForm(amount)
    \/ \E a \in GiftCards : close(a)
    \/ \E a \in GiftCards : Freeze(a)
    \/ \E a \in GiftCards : Thaw(a)
    \/ Tick

SpecCheckout == InitCheckout /\ [][NextCheckout]_vars

(* ------------------------------- claims ------------------------------- *)

\* The committed entries of transaction t.
EntriesOf(t) == {e \in entries : e.transaction = t.id}

\* C1: every committed transaction has exactly two entries, one of -x on one
\* account and one of +x on another for some x > 0, so its entries sum to 0;
\* every entry belongs to a committed transaction, and the entries of the
\* whole ledger sum to 0.
C1_DoubleEntry ==
    /\ \A t \in transactions :
          /\ Cardinality(EntriesOf(t)) = 2
          /\ \E d \in EntriesOf(t), c \in EntriesOf(t) :
                d.amount < 0 /\ c.amount = 0 - d.amount /\ c # d
          /\ SumAmounts(EntriesOf(t)) = 0
    /\ \A e \in entries : \E t \in transactions : t.id = e.transaction
    /\ SumAmounts(entries) = 0

\* C1 witness: two transfers are committed, one of them a reversal, and a call
\* has failed inside its database transaction.
C1_Witness ==
    /\ Cardinality(transactions) >= 2
    /\ \E t \in transactions : t.parent # None
    /\ \E p \in Procs : result[p] = RuntimeError

\* C2: the balance of every account is the net amount the transfers that
\* returned successfully moved to it, which is the sum of its committed
\* entries, and it is 0 for an account without entries.
C2_BalanceIsSumOfEntries ==
    \A a \in Accounts :
        /\ balance(a) = posted[a]
        /\ balance(a) = SumAmounts({e \in entries : e.budget = a})
        /\ ({e \in entries : e.budget = a} = {} => balance(a) = 0)

\* C2 witness: an account without entries beside accounts with a nonzero
\* balance, while another caller holds uncommitted entries.
C2_Witness ==
    /\ \E a \in Accounts : {e \in entries : e.budget = a} = {} /\ balance(a) = 0
    /\ \E a \in Accounts : balance(a) > 0
    /\ \E a \in Accounts : balance(a) < 0
    /\ \E p \in Procs : uncommitted[p].entries # {}

\* C3: the header and the two entries of a transfer are committed together:
\* no state shows a header without both entries, or an entry without its
\* header or without its partner.
C3_Atomic ==
    /\ \A t \in transactions : Cardinality(EntriesOf(t)) = 2
    /\ \A e \in entries :
          /\ \E t \in transactions : t.id = e.transaction
          /\ \E f \in entries : f.transaction = e.transaction /\ f # e

\* C3 witness: a call failed between its writes, and a caller that has written
\* a header and one entry is still uncommitted, while a committed transfer
\* touches the same account.
C3_Witness ==
    \E p \in Procs, q \in Procs :
        /\ result[p] = RuntimeError
        /\ pc[q] = "debit"
        /\ \E e \in entries : e.budget = args[q].source

\* C4: of the concurrent debits of 60.00 from account "a", which holds 100.00
\* and has credit limit 0.00, exactly one succeeds and the others fail with
\* InsufficientBudget, and the balance of "a" never falls below 0.00.
C4_ExactlyOneDebitSucceeds ==
    /\ balance("a") >= 0
    /\ (\A p \in Procs : pc[p] = "idle" /\ result[p] # NoResult)
          => /\ Cardinality({p \in Procs : result[p] = OK}) = 1
             /\ \A p \in Procs : result[p] \in {OK, InsufficientBudget}

\* C5: with one operation at a time, the balance of an account with credit
\* limit L is never below -L.
C5_CreditLimitRespected ==
    \A a \in Accounts : credit_limit[a] # None => balance(a) >= 0 - credit_limit[a][1]

\* C5 witness: "b" (limit 60.00) is overdrawn to exactly -60.00, "a" (limit
\* 0.00) has been funded and debited down to 0.00, and a further debit was
\* refused.
C5_Witness ==
    /\ balance("b") = 0 - 6000
    /\ balance("a") = 0
    /\ TransactionsOf("a") # {}
    /\ \E p \in Procs : result[p] = InsufficientBudget

\* A call of create() by p returns one of `outcomes` in this step.
Returns(p, outcomes) ==
    /\ result'[p] # result[p] \/ pc'[p] # pc[p]
    /\ pc'[p] = "idle"
    /\ result'[p] \in outcomes

\* No row is written, committed or not, and no id is taken.
NothingWritten == UNCHANGED <<transactions, entries, uncommitted, next_id>>

\* C6: whatever the statuses, dates and balances are, a transfer of an amount
\* <= 0 is refused with InvalidAmount, and a call that returns InvalidAmount
\* has written no header and no entry.
C6_NonPositiveAmountRejected ==
    /\ [](\A s \in Accounts, d \in Accounts, amt \in AmountSet :
             amt <= 0 => verify_transaction(s, d, amt) = InvalidAmount)
    /\ [][\A p \in Procs : Returns(p, {InvalidAmount}) => pc[p] = "idle" /\ NothingWritten]_vars

\* C6 witness: a call was refused with InvalidAmount while the ledger holds a
\* transfer, one account is closed, one frozen and one inactive.
C6_Witness ==
    /\ \E p \in Procs : result[p] = InvalidAmount
    /\ transactions # {}
    /\ \E a \in Accounts : is_closed(a)
    /\ \E a \in Accounts : is_frozen(a) /\ ~is_active(a)

\* The checks of a transfer, one by one.
AmountOk(amt) == amt > 0

SourceActive(s) == is_active(s)

DestinationActive(d) == is_active(d)

SourceOpen(s) == status[s] = OPEN

DestinationOpen(d) == status[d] = OPEN

DebitPermitted(s, amt) ==
    credit_limit[s] = None \/ amt <= SumAmounts({e \in entries : e.budget = s}) + credit_limit[s][1]

\* C7: the error of a transfer is that of the first failing check in the order
\* amount, source active, destination active, source open, destination open,
\* debit permitted; and a call refused by a check had written nothing.
C7_FirstFailingCheckWins ==
    /\ [](\A s \in Accounts, d \in Accounts, amt \in AmountSet :
             LET v == verify_transaction(s, d, amt) IN
             /\ ~AmountOk(amt) => v = InvalidAmount
             /\ AmountOk(amt) /\ ~SourceActive(s) => v = InactiveSource
             /\ AmountOk(amt) /\ SourceActive(s) /\ ~DestinationActive(d)
                   => v = InactiveDestination
             /\ AmountOk(amt) /\ SourceActive(s) /\ DestinationActive(d) /\ ~SourceOpen(s)
                   => v = ClosedSource
             /\ AmountOk(amt) /\ SourceActive(s) /\ DestinationActive(d) /\ SourceOpen(s)
                   /\ ~DestinationOpen(d)
                   => v = ClosedDestination
             /\ AmountOk(amt) /\ SourceActive(s) /\ DestinationActive(d) /\ SourceOpen(s)
                   /\ DestinationOpen(d) /\ ~DebitPermitted(s, amt)
                   => v = InsufficientBudget
             /\ AmountOk(amt) /\ SourceActive(s) /\ DestinationActive(d) /\ SourceOpen(s)
                   /\ DestinationOpen(d) /\ DebitPermitted(s, amt)
                   => v = OK)
    /\ [][\A p \in Procs :
             Returns(p, VerifyErrors) => pc[p] = "idle" /\ uncommitted[p] = NoRows /\ NothingWritten]_vars

\* C7 witness: a transfer was refused for its inactive destination while a
\* transfer from a non-open source to an inactive destination yields the
\* inactive error, and one from a non-open source that cannot cover the amount
\* yields the status error.
C7_Witness ==
    /\ \E p \in Procs : result[p] = InactiveDestination
    /\ \E s \in Accounts, d \in Accounts :
          /\ ~is_open(s) /\ is_active(s) /\ ~is_active(d)
          /\ verify_transaction(s, d, 6000) = InactiveDestination
    /\ \E s \in Accounts, d \in Accounts :
          /\ ~is_open(s) /\ is_active(s) /\ is_active(d) /\ ~is_debit_permitted(s, 6000)
          /\ verify_transaction(s, d, 6000) = ClosedSource

\* Caller p takes a step of create().
Moves(p) == pc'[p] # pc[p] \/ result'[p] # result[p]

\* C8: every step of a call of create() that does not return successfully
\* leaves the committed headers and entries and every status as they were,
\* and when the call returns an error none of the rows it wrote is left; every
\* balance is the sum of the committed entries of its account, so it is left
\* as it was too.
C8_ErrorLeavesLedgerUnchanged ==
    /\ [](\A a \in Accounts : balance(a) = SumAmounts({e \in entries : e.budget = a}))
    /\ [][\A p \in Procs :
             (Moves(p) /\ result'[p] # OK) =>
                 /\ transactions' = transactions
                 /\ entries' = entries
                 /\ status' = status
                 /\ result'[p] \in Errors => uncommitted'[p] = NoRows]_vars

\* C8 witness: with transfers in the ledger, a call has failed inside its
\* database transaction on the unique constraint.
C8_Witness ==
    /\ transactions # {}
    /\ \E a \in Accounts : balance(a) # 0
    /\ \E p \in Procs : result[p] = IntegrityError

\* C9: an account becomes Closed only when its balance is 0.00; with a
\* nonzero balance close fails and the status stays as it was.
C9_CloseOnlyWhenEmpty ==
    [][\A a \in Accounts : (status'[a] = CLOSED /\ status[a] # CLOSED) => balance(a) = 0]_vars

\* C10: once an account is Closed it stays Closed.
C10_ClosedIsTerminal ==
    [][\A a \in Accounts : status[a] = CLOSED => status'[a] = CLOSED]_vars

\* C11: a transfer whose source or destination is not Open is refused, with
\* the status error once the amount and the dates have passed, and no call of
\* create(), top-up included, gets past verification unless both accounts are
\* Open; so while an account stays Frozen or Closed its entries, and with
\* them its balance, do not change.
C11_NotOpenAccountIsUntouched ==
    /\ [](\A s \in accounts, d \in accounts, amt \in AmountSet :
             (status[s] # OPEN \/ status[d] # OPEN) =>
                 /\ verify_transaction(s, d, amt) # OK
                 /\ (AmountOk(amt) /\ SourceActive(s) /\ DestinationActive(d))
                       => verify_transaction(s, d, amt) \in ClosedBudget)
    /\ [][\A p \in Procs :
             (pc[p] = "idle" /\ pc'[p] = "header") =>
                 status[args'[p].source] = OPEN /\ status[args'[p].destination] = OPEN]_vars
    /\ [][\A a \in Accounts :
             (status[a] # OPEN /\ status'[a] # OPEN) =>
                 {e \in entries' : e.budget = a} = {e \in entries : e.budget = a}]_vars

\* Transaction t moved x from account s to account d.
IsTransfer(t, s, d, x) ==
    /\ x > 0
    /\ EntriesOf(t) = {Entry(t.id, s, 0 - x), Entry(t.id, d, x)}

\* C12: a committed reversal T' of a transfer T(source=A, destination=B,
\* amount=X) is the transfer T'(source=B, destination=A, amount=X), and with
\* both committed the balance of every account is what the other transactions
\* alone give it: A and B are where they were before T.
C12_ReversalRestoresBalances ==
    \A r \in transactions :
        r.parent # None =>
            \E t \in transactions, A \in Accounts, B \in Accounts, X \in AmountSet :
                /\ t.id = r.parent[1]
                /\ IsTransfer(t, A, B, X)
                /\ IsTransfer(r, B, A, X)
                /\ \A a \in Accounts :
                      balance(a) = SumAmounts({e \in entries : /\ e.budget = a
                                                               /\ e.transaction # t.id
                                                               /\ e.transaction # r.id})

\* C12 witness: a transfer and its reversal are committed next to a third
\* transfer that leaves balances different from 0.
C12_Witness ==
    /\ Cardinality(transactions) = 3
    /\ \E r \in transactions, t \in transactions :
          r.parent = Some(t.id) /\ t.parent = None
    /\ \E a \in Accounts : balance(a) # 0

C14_DeleteAlwaysFails ==
    [][\A p \in Procs :
          (pc[p] = "idle" /\ pc'[p] = "idle" /\ Moves(p)) =>
              /\ result'[p] \in VerifyErrors \cup {DeletionForbidden}
              /\ transactions' = transactions
              /\ entries' = entries
              /\ uncommitted' = uncommitted]_vars

\* C14 witness: a delete was attempted and refused on a ledger that holds a
\* transfer and its reversal.
C14_Witness ==
    /\ \E p \in Procs : result[p] = DeletionForbidden
    /\ \E r \in transactions, t \in transactions : r.parent = Some(t.id)
    /\ \A t \in transactions : Cardinality(EntriesOf(t)) = 2

\* C15: the ledger is append-only: in every step of every operation each
\* committed transaction is still there with its id, and each committed entry
\* is still there with its transaction, account and amount.
C15_AppendOnly ==
    [][/\ \A t \in transactions : \E u \in transactions' : u.id = t.id /\ u.parent = t.parent
       /\ \A e \in entries : e \in entries']_vars

\* C16: when the user who authorised a transfer is deleted, the transaction
\* stays with both of its entries, its user reference is null, and the
\* authorisor username it reports is the one it reported before.
C16_AuthorisorDeleted ==
    [][\A u \in users \ users' :
          \A t \in transactions :
              t.user = Some(u) =>
                  /\ \E t2 \in transactions' :
                        /\ t2.id = t.id
                        /\ t2.user = None
                        /\ authorisor_username(t2) = authorisor_username(t)
                  /\ {e \in entries' : e.transaction = t.id} = EntriesOf(t)
                  /\ Cardinality(EntriesOf(t)) = 2]_vars

\* C17: is_debit_permitted(amount) is true exactly when the credit limit is
\* null or amount <= balance + credit_limit, for every amount: with limit
\* 500.00 and no entries it permits 0.00, 1.00 and 500.00 and refuses 501.00
\* and 1000.00; with the default limit 0.00 and no entries it refuses 1.00;
\* without a limit it permits every amount.
C17_DebitPermittedIffWithinLimit ==
    asked.op = "is_debit_permitted" =>
        LET a == asked.account
            amount == asked.amount
            sum == SumAmounts({e \in entries : e.budget = a})
            new == {e \in entries : e.budget = a} = {}
        IN /\ asked.answer <=> (credit_limit[a] = None \/ amount <= sum + credit_limit[a][1])
           /\ (credit_limit[a] = Some(50000) /\ new /\ amount \in {0, 100, 50000}) => asked.answer
           /\ (credit_limit[a] = Some(50000) /\ new /\ amount \in {50100, 100000})
                 => ~asked.answer
           /\ (credit_limit[a] = Some(0) /\ new /\ amount = 100) => ~asked.answer
           /\ credit_limit[a] = None => asked.answer

\* C17 witness: an account with limit 500.00 that holds 60.00 was asked about
\* exactly 560.00 and permits it.
C17_Witness ==
    /\ asked.op = "is_debit_permitted"
    /\ credit_limit[asked.account] = Some(50000)
    /\ balance(asked.account) = 6000
    /\ asked.amount = 56000
    /\ asked.answer

\* C18: is_active() is true exactly when today is not before the start date,
\* if there is one, and before the end date, if there is one, whatever the
\* status is; an account whose end date is today is not active, and a transfer
\* of a positive amount to or from it is refused as inactive.
C18_ActiveWindow ==
    /\ asked.op = "is_active" =>
          LET a == asked.account IN
          /\ (start_date[a] = None /\ end_date[a] = None) => asked.answer
          /\ (start_date[a] # None /\ end_date[a] = None)
                => (asked.answer <=> today >= start_date[a][1])
          /\ (start_date[a] = None /\ end_date[a] # None)
                => (asked.answer <=> today < end_date[a][1])
          /\ (start_date[a] # None /\ end_date[a] # None)
                => (asked.answer <=> (start_date[a][1] <= today /\ today < end_date[a][1]))
          /\ end_date[a] = Some(today) => ~asked.answer
    /\ (asked.op = "verify_transaction" /\ asked.amount > 0) =>
          /\ end_date[asked.account] = Some(today) => asked.answer = InactiveSource
          /\ end_date[asked.other] = Some(today) => asked.answer \in InactiveBudget

\* C18 witness: a Closed account with both dates set whose end date is today
\* answered that it is not active.
C18_Witness ==
    /\ asked.op = "is_active"
    /\ status[asked.account] = CLOSED
    /\ start_date[asked.account] # None
    /\ end_date[asked.account] = Some(today)
    /\ ~asked.answer

\* C19: the expired set holds exactly the accounts whose end date is before
\* today: an account that ends after today is not in it, and neither is an
\* account that ends today.
C19_ExpiredOnlyBeforeToday ==
    asked.op = "expired" =>
        LET a == asked.account IN
        /\ asked.answer => (end_date[a] # None /\ end_date[a][1] < today)
        /\ (end_date[a] # None /\ end_date[a][1] < today) => asked.answer
        /\ (end_date[a] # None /\ end_date[a][1] > today) => ~asked.answer
        /\ end_date[a] = Some(today) => ~asked.answer

\* C20: an account comes into being Open, with credit limit 0.00 and without
\* entries; an account without entries has balance 0.00 and zero
\* transactions; and an account with credit limit 0.00 permits a positive
\* debit, and passes verification as a source, only when a committed transfer
\* has credited it.
C20_NewAccountInitialState ==
    /\ [][\A a \in accounts' \ accounts :
             /\ status'[a] = OPEN
             /\ credit_limit'[a] = Some(0)
             /\ {e \in entries' : e.budget = a} = {}]_vars
    /\ [](\A a \in accounts :
             /\ {e \in entries : e.budget = a} = {}
                   => (balance(a) = 0 /\ num_transactions(a) = 0)
             /\ credit_limit[a] = Some(0) =>
                   \A amount \in QueryAmounts \cup AmountSet :
                       (amount > 0 /\ (\/ is_debit_permitted(a, amount)
                                       \/ \E d \in accounts :
                                             verify_transaction(a, d, amount) = OK))
                           => \E e \in entries, t \in transactions :
                                 e.budget = a /\ e.amount > 0 /\ t.id = e.transaction)

\* C20 witness: of two accounts created with the defaults, one has received
\* funds and permits a debit, the other has no entries and its debit was
\* refused.
C20_Witness ==
    \E a \in accounts, b \in accounts :
        /\ credit_limit[a] = Some(0) /\ balance(a) > 0 /\ is_debit_permitted(a, 6000)
        /\ credit_limit[b] = Some(0) /\ num_transactions(b) = 0
        /\ result[Caller] = InsufficientBudget


\* The letters of the codes, lower case beside upper case.
LowerUpper == {<<"a", "A">>, <<"b", "B">>}

\* u is c with every lower-case letter replaced by its upper-case letter and
\* every other character kept.
IsUpperOf(u, c) ==
    /\ DOMAIN u = DOMAIN c
    /\ \A i \in DOMAIN c :
          IF \E lu \in LowerUpper : lu[1] = c[i]
          THEN <<c[i], u[i]>> \in LowerUpper
          ELSE u[i] = c[i]

\* C21: after every save, at creation or later, the stored code of the
\* account is the uppercase form of the code that was handed in; a code that
\* is uppercase already is stored as it is, and saving the stored code again
\* leaves it unchanged.
C21_CodeStoredUppercase ==
    /\ [](\A a \in accounts :
            given[a] # None =>
                /\ code[a] # None
                /\ IsUpperOf(code[a][1], given[a][1])
                /\ (\A i \in DOMAIN given[a][1] :
                       \A lu \in LowerUpper : given[a][1][i] # lu[1])
                       => code[a] = given[a])
    /\ [][\A a \in accounts :
             (code[a] # None /\ given'[a] = code[a]) => code'[a] = code[a]]_vars

\* C21 witness: one account was created with a lower-case code and is stored
\* in uppercase, and the other was handed a code that is uppercase already.
C21_Witness ==
    /\ given["a"] = Some(<<"a", "b">>)
    /\ code["a"] = Some(<<"A", "B">>)
    /\ given["b"] = Some(<<"A", "1">>)
    /\ code["b"] = Some(<<"A", "1">>)
    /\ {"a", "b"} \subseteq accounts

\* C22: the step that completes a transfer of amount from source to
\* destination lowers the balance of source by amount, raises the balance of
\* destination by amount, leaves the balance of every other account as it
\* was, and leaves status, credit_limit, start_date and end_date of every
\* account, source and destination included, as they were.
C22_TransferFrame ==
    [][\A p \in Procs, s \in Accounts, d \in Accounts, amount \in AmountSet :
          (/\ pc[p] = "credit"
           /\ result'[p] = OK
           /\ args[p].source = s
           /\ args[p].destination = d
           /\ args[p].amount = amount) =>
              /\ s # d
              /\ balance(s)' = balance(s) - amount
              /\ balance(d)' = balance(d) + amount
              /\ \A a \in Accounts \ {s, d} : balance(a)' = balance(a)
              /\ UNCHANGED <<status, credit_limit, start_date, end_date>>]_vars

\* C22 witness: a transfer from "b" to "bank" has just completed while "a",
\* which it does not touch, is frozen and holds funds.
C22_Witness ==
    /\ result[Caller] = OK
    /\ pc[Caller] = "idle"
    /\ \E t \in transactions :
          /\ t.id = next_id - 1
          /\ IsTransfer(t, "b", "bank", 6000)
    /\ status["a"] = FROZEN
    /\ balance("a") = 6000

\* C23: in every reachable state every account whose status is Closed has
\* balance exactly 0.00.
C23_ClosedHasZeroBalance ==
    \A a \in accounts : status[a] = CLOSED => balance(a) = 0

\* C24: a call of create() whose source and destination are the same account
\* never returns ok: once its debit entry is written, its next step fails
\* (the credit entry collides on (transaction, budget)), the committed rows
\* stay as they were and the header and the debit entry of the call are
\* gone; so the entries of every committed transaction are two and belong to
\* two different accounts.
C24_SelfTransferLeavesNothing ==
    /\ [](\A t \in transactions :
            /\ Cardinality({e.budget : e \in EntriesOf(t)}) = 2
            /\ Cardinality(EntriesOf(t)) = 2)
    /\ [][\A p \in Procs :
             (pc[p] # "idle" /\ args[p].source = args[p].destination /\ Moves(p)) =>
                 /\ result'[p] # OK
                 /\ pc[p] = "debit" =>
                       /\ result'[p] \in {IntegrityError, RuntimeError}
                       /\ uncommitted'[p] = NoRows
                       /\ UNCHANGED ledger]_vars

\* C24 witness: a self-transfer that passed verification has failed on the
\* unique constraint, beside a committed transfer.
C24_Witness ==
    /\ \E p \in Procs : result[p] = IntegrityError
    /\ transactions # {}
    /\ entries # {}

\* C25: a creation request writes no entry by itself: until its transfer is
\* committed the new account has no entries and balance 0.00; the step that
\* completes the transfer of amount X leaves the new account with balance X
\* and the source with X less; and when the transfer is refused with a
\* ledger error, the account the request created is not stored any more.
C25_CreationLoadsByTransfer ==
    /\ [](\A p \in Procs :
            pc[p] \in {"load_account", "form_valid"} =>
                /\ TransactionsOf(args[p].destination) = {}
                /\ balance(args[p].destination) = 0)
    /\ [][\A p \in Procs, s \in Accounts, d \in Accounts, X \in AmountSet :
             (/\ pc[p] = "credit"
              /\ result'[p] = OK
              /\ args[p].source = s
              /\ args[p].destination = d
              /\ args[p].amount = X) =>
                 /\ balance(d)' = X
                 /\ balance(s)' = balance(s) - X]_vars
    /\ [][\A p \in Procs, d \in Accounts :
             (/\ pc[p] \in {"load_account", "form_valid"}
              /\ args[p].destination = d
              /\ result'[p] \in VerifyErrors) => d \notin accounts']_vars

\* C26: freezing and thawing are possible whatever the balance of the
\* account is; a step that takes an account from Open to Frozen or from
\* Frozen to Open changes nothing but the status of that account: no header,
\* no entry, and with them no balance, and no other field of any account; and
\* right after a thaw the account is Open and a transfer out of it or into
\* it passes verification whenever its amount, the dates, the status of the
\* other account and the funds of the source allow it.
C26_FreezeThawOnlyStatus ==
    /\ [](\A a \in GiftCards : ENABLED Freeze(a) /\ ENABLED Thaw(a))
    /\ [][\A a \in GiftCards :
             (\/ status[a] = OPEN /\ status'[a] = FROZEN
              \/ status[a] = FROZEN /\ status'[a] = OPEN) =>
                 /\ UNCHANGED <<transactions, entries, uncommitted, credit_limit,
                                start_date, end_date, primary_user, code, accounts>>
                 /\ \A b \in Accounts \ {a} : status'[b] = status[b]]_vars
    /\ [][\A a \in GiftCards, b \in Accounts, amount \in AmountSet :
             (/\ a # b
              /\ status[a] = FROZEN
              /\ status'[a] = OPEN
              /\ amount > 0
              /\ is_active(a)
              /\ is_active(b)
              /\ is_open(b)) =>
                 /\ is_debit_permitted(a, amount) => verify_transaction(a, b, amount)' = OK
                 /\ is_debit_permitted(b, amount) => verify_transaction(b, a, amount)' = OK]_vars

\* C26 witness: "a" is frozen with a positive balance and "b" is frozen with
\* a negative balance, after transfers out of and into both.
C26_Witness ==
    /\ status["a"] = FROZEN
    /\ balance("a") > 0
    /\ status["b"] = FROZEN
    /\ balance("b") < 0
    /\ Cardinality(transactions) >= 2

\* C27: every accepted allocation is made against the selected account, is
\* at least 0.01, at most the balance of that account and at most the order
\* total less the total allocated before it, and changes no other
\* allocation; the total allocated never exceeds the order total; and a code
\* selects an account only if an account with the code exists, is active, is
\* Open and has a balance other than 0.00.
C27_AllocationWithinLimits ==
    /\ [](allocations_total <= checkout.order_total)
    /\ [][\A a \in Accounts, amount \in (0 - 4)..4 :
             (/\ amount # 0
              /\ checkout'.allocations[a] = checkout.allocations[a] + amount) =>
                 /\ checkout.account = Some(a)
                 /\ amount >= 1
                 /\ amount <= balance(a)
                 /\ amount <= checkout.order_total - allocations_total
                 /\ \A b \in Accounts \ {a} :
                       checkout'.allocations[b] = checkout.allocations[b]]_vars
    /\ [][\A a \in Accounts :
             (checkout'.account = Some(a) /\ checkout.account # Some(a)) =>
                 /\ a \in accounts
                 /\ code[a] # None
                 /\ is_active(a)
                 /\ is_open(a)
                 /\ balance(a) # 0]_vars

\* C27 witness: of an order of 0.05, 0.02 are allocated to "a", which holds
\* no more, and the remaining 0.03 to "b", which holds 0.04; a further
\* allocation was refused.
C27_Witness ==
    /\ checkout.order_total = 5
    /\ checkout.allocations["a"] = 2
    /\ checkout.allocations["b"] = 3
    /\ balance("b") = 4
    /\ checkout.message = MaximumAllocation

=========================================================================
